---------------------------- MODULE Spec2Model ----------------------------
(***************************************************************************)
(* The chained hash table of hash-table-v1.c (one table-wide mutex,        *)
(* "Variant A") and hash-table-v2.c (one mutex per bucket, "Variant B").   *)
(*                                                                         *)
(* The heap holds struct list_entry nodes {key, value, pointers}; a bucket *)
(* is the SLIST head of its chain.  A key is a `const char *`: the model   *)
(* keeps the pointer (the caller's buffer) apart from the bytes the buffer *)
(* holds, because the table stores the pointer and strcmp reads the bytes. *)
(* Threads run add_entry, contains and get_value one memory access at a    *)
(* time.  contains and get_value take no lock, so their loads race with a  *)
(* writer's stores; the stores that initialise and link a new node may     *)
(* reach memory in any order (Spec), or in program order (SpecSC).         *)
(***************************************************************************)
EXTENDS Integers, Sequences, FiniteSets, TLC

(* ------------------------------ bounds --------------------------------- *)

\* threads sharing the table
NumThreads == 2

\* HASH_TABLE_CAPACITY is set in hash-table-base.h, which is not among the
\* sources; the model scales it down so that chains grow and keys collide.
Capacity == 2

\* longest key, in bytes before the terminating NUL
MaxKeyLen == 1

\* values are 0..MaxValue (uint32_t in the code; no arithmetic is done on them)
MaxValue == 1

\* list_entry nodes the heap can hand out before calloc returns NULL
MaxNodes == 2

\* key buffers the callers own
NumBufs == 2

(* ------------------------------ domains -------------------------------- *)

NULL == 0

NoThread == 0

Threads == 1..NumThreads

Buckets == 0..(Capacity - 1)

Nodes == 1..MaxNodes

Bufs == 1..NumBufs

Values == 0..MaxValue

\* the bytes keys are made of ('a', 'b')
Bytes == {97, 98}

\* every NUL-terminated string of at most MaxKeyLen bytes, the empty one included
KeyStrings == UNION {[1..n -> Bytes] : n \in 0..MaxKeyLen}

(* --------------------------- hash function ----------------------------- *)

\* 2^16: a uint32_t is kept as <<high half, low half>>
Half == 2^16

HashSeed == 5381

\* hash = hash * 33 + c  (mod 2^32)
HashStep(acc, c) ==
    LET lo == acc[2] * 33 + c
    IN  <<(acc[1] * 33 + (lo \div Half)) % Half, lo % Half>>

RECURSIVE HashFrom(_, _)
HashFrom(acc, s) ==
    IF s = <<>> THEN acc ELSE HashFrom(HashStep(acc, Head(s)), Tail(s))

bernstein_hash(s) == HashFrom(<<HashSeed \div Half, HashSeed % Half>>, s)

\* bernstein_hash(key) % HASH_TABLE_CAPACITY
BucketIndex(s) ==
    LET h == bernstein_hash(s)
    IN  (((h[1] % Capacity) * (Half % Capacity)) + h[2]) % Capacity

(* ------------------------------- state --------------------------------- *)

VARIABLES
    variant,            \* "A": hash-table-v1.c, "B": hash-table-v2.c
    proc,               \* "running", or how the process ended
    buf,                \* the bytes each caller-owned key buffer holds
    head,               \* entries[i].list_head.slh_first
    heap,               \* the list_entry nodes
    nalloc,             \* nodes calloc has handed out
    mutex,              \* v1: hash_table->mutex (its owner, or NoThread)
    entry_mutex,        \* v2: entries[i].mutex
    pc,                 \* where each thread is
    key,                \* the call's key argument (a buffer, or NULL)
    value,              \* add_entry's value argument
    hash_table_entry,   \* the bucket get_hash_table_entry returned
    list_entry,         \* the scan's cursor / the node found or allocated
    first,              \* SLIST_INSERT_HEAD's load of (head)->slh_first
    pend,               \* add_entry's stores not yet in memory
    ret,                \* the return the last step made, if it made one
    oracle,             \* history: what a test harness noted of its inserts
    hash_table,         \* the table's own allocation: "live" or "freed"
    freed,              \* how many times free() was given each node
    twin                \* a second table fed the same calls (SpecTwin only)

vars == <<variant, proc, buf, head, heap, nalloc, mutex, entry_mutex, pc,
          key, value, hash_table_entry, list_entry, first, pend, ret, oracle,
          hash_table, freed, twin>>

table == <<head, heap, nalloc>>

guards == <<mutex, entry_mutex>>

locals == <<key, value, hash_table_entry, list_entry, first, pend>>

lifetime == <<hash_table, freed>>

\* a mutex after pthread_mutex_destroy
Destroyed == -1

\* calloc(1, sizeof(struct list_entry))
ZeroNode == [key |-> NULL, value |-> 0, pointers |-> NULL]

\* the four stores of add_entry's insert path, in program order
NewStores == <<"key", "value", "next", "first">>

StoreSet == {NewStores[i] : i \in 1..Len(NewStores)}

\* thread t's call o returns v: contains gives 1 (true) or 0, get_value the value
Returned(t, o, v) == [thread |-> t, op |-> o, val |-> v]

NoRet == Returned(NoThread, "none", 0)

\* the harness has noted no insert of this key
NoValue == -1

\* a harness that notes nothing, and one that has noted nothing yet
OracleOff == [on |-> FALSE, val |-> [s \in KeyStrings |-> NoValue]]

OracleOn == [on |-> TRUE, val |-> [s \in KeyStrings |-> NoValue]]

\* the call a harness with two tables is replaying, and "none is"
Called(t, o, k, v) == [thread |-> t, op |-> o, key |-> k, value |-> v]

NoCall == Called(NoThread, "none", NULL, 0)

\* no second table
TwinOff ==
    [stage |-> "off", call |-> NoCall, variant |-> "none", proc |-> "running",
     head |-> [i \in Buckets |-> NULL], heap |-> [n \in Nodes |-> ZeroNode],
     nalloc |-> 0, mutex |-> NoThread,
     entry_mutex |-> [i \in Buckets |-> NoThread], ret |-> NoRet]

\* the step returns nothing and the harness notes nothing
Quiet == ret' = NoRet /\ UNCHANGED oracle

\* hash_table_create has returned (either variant's), no call was made yet
Created ==
    /\ variant \in {"A", "B"}
    /\ proc = "running"
    /\ head = [i \in Buckets |-> NULL]
    /\ heap = [n \in Nodes |-> ZeroNode]
    /\ nalloc = 0
    /\ mutex = NoThread
    /\ entry_mutex = [i \in Buckets |-> NoThread]
    /\ pc = [t \in Threads |-> "idle"]
    /\ key = [t \in Threads |-> NULL]
    /\ value = [t \in Threads |-> 0]
    /\ hash_table_entry = [t \in Threads |-> 0]
    /\ list_entry = [t \in Threads |-> NULL]
    /\ first = [t \in Threads |-> NULL]
    /\ pend = [t \in Threads |-> {}]
    /\ ret = NoRet
    /\ hash_table = "live"
    /\ freed = [n \in Nodes |-> 0]

Init ==
    /\ Created
    /\ buf \in [Bufs -> KeyStrings]
    /\ oracle = OracleOff
    /\ twin = TwinOff

(* ------------------------- chains and lookups -------------------------- *)

\* the bytes a stored key pointer leads to
KeyOf(n) == buf[heap[n].key]

\* get_hash_table_entry: assert(key != NULL) is checked by the callers below
get_hash_table_entry(k) == BucketIndex(buf[k])

\* SLIST_FOREACH from node n: the nodes of the chain, first to last
RECURSIVE ChainFrom(_)
ChainFrom(n) ==
    IF n = NULL THEN <<>> ELSE <<n>> \o ChainFrom(heap[n].pointers)

Chain(i) == ChainFrom(head[i])

\* get_list_entry run in one piece: the first node whose key compares equal
RECURSIVE ScanFrom(_, _)
ScanFrom(n, s) ==
    IF n = NULL THEN NULL
    ELSE IF heap[n].key # NULL /\ KeyOf(n) = s THEN n
    ELSE ScanFrom(heap[n].pointers, s)

get_list_entry(s, i) == ScanFrom(head[i], s)

\* hash_table_contains / hash_table_get_value run in one piece on key bytes s
Contains(s) == get_list_entry(s, BucketIndex(s)) # NULL

GetValue(s) == heap[get_list_entry(s, BucketIndex(s))].value

(* ------------------------------ helpers -------------------------------- *)

Running == proc = "running"

\* Thread t ends the process: assert(key != NULL) fails ("assert_key"),
\* assert(list_entry != NULL) fails ("assert_entry"), or a NULL pointer is
\* dereferenced ("segv").  The threads are gone with it; the table and the
\* mutexes are left as they were at that moment.
Terminate(t, how) ==
    /\ proc' = how
    /\ pc' = [u \in Threads |-> IF u = t THEN "fault" ELSE "gone"]
    /\ key' = [u \in Threads |-> NULL]
    /\ value' = [u \in Threads |-> 0]
    /\ hash_table_entry' = [u \in Threads |-> 0]
    /\ list_entry' = [u \in Threads |-> NULL]
    /\ first' = [u \in Threads |-> NULL]
    /\ pend' = [u \in Threads |-> {}]
    /\ Quiet
    /\ UNCHANGED <<variant, lifetime, twin, buf, table, guards>>

\* the thread's call returns r: its frame is gone
Return(t, r) ==
    /\ pc' = [pc EXCEPT ![t] = "idle"]
    /\ key' = [key EXCEPT ![t] = NULL]
    /\ value' = [value EXCEPT ![t] = 0]
    /\ hash_table_entry' = [hash_table_entry EXCEPT ![t] = 0]
    /\ list_entry' = [list_entry EXCEPT ![t] = NULL]
    /\ first' = [first EXCEPT ![t] = NULL]
    /\ pend' = [pend EXCEPT ![t] = {}]
    /\ ret' = r
    /\ oracle' = IF oracle.on /\ r.op = "add"
                 THEN [oracle EXCEPT !.val[buf[key[t]]] = value[t]]
                 ELSE oracle

\* strcmp(entry->key, key) == 0, both pointers valid
KeysEqual(n, k) == KeyOf(n) = buf[k]

\* one turn of get_list_entry's SLIST_FOREACH with the cursor at n
ScanTurn(n, k) ==
    IF n = NULL THEN "absent"
    ELSE IF heap[n].key = NULL THEN "segv"
    ELSE IF KeysEqual(n, k) THEN "found"
    ELSE "next"

\* a lock that never waits
GuardFree_NoWait(t) == TRUE

\* a lock that waits for every mutex of the table, not for its own
GuardFree_AnyHeld(t) ==
    /\ mutex = NoThread
    /\ \A i \in Buckets : entry_mutex[i] = NoThread

\* the mutex add_entry takes, free or not
GuardFree(t) ==
    IF variant = "A" THEN mutex = NoThread
    ELSE entry_mutex[hash_table_entry[t]] = NoThread

\* v2 locking the first bucket's mutex whatever the key's bucket is
Acquire_FirstBucket(t) ==
    IF variant = "A"
    THEN /\ mutex' = t
         /\ UNCHANGED entry_mutex
    ELSE /\ entry_mutex' = [entry_mutex EXCEPT ![0] = t]
         /\ UNCHANGED mutex

Acquire(t) ==
    IF variant = "A"
    THEN /\ mutex' = t
         /\ UNCHANGED entry_mutex
    ELSE /\ entry_mutex' = [entry_mutex EXCEPT ![hash_table_entry[t]] = t]
         /\ UNCHANGED mutex

\* an unlock that unlocks nothing
Release_Never(t) == UNCHANGED guards

\* an add_entry that forgets the unlock on its early return
Release_NotOnUpdate(t) ==
    IF pc[t] = "add_unlock_update" THEN UNCHANGED guards
    ELSE IF variant = "A"
    THEN /\ mutex' = NoThread
         /\ UNCHANGED entry_mutex
    ELSE /\ entry_mutex' = [entry_mutex EXCEPT ![hash_table_entry[t]] = NoThread]
         /\ UNCHANGED mutex

Release(t) ==
    IF variant = "A"
    THEN /\ mutex' = NoThread
         /\ UNCHANGED entry_mutex
    ELSE /\ entry_mutex' = [entry_mutex EXCEPT ![hash_table_entry[t]] = NoThread]
         /\ UNCHANGED mutex

(* ------------------------------ add_entry ------------------------------ *)

\* the call; v2 finds the bucket (and asserts key != NULL) before it locks
AddCall(t, k, v) ==
    /\ Running
    /\ pc[t] = "idle"
    /\ IF variant = "B" /\ k = NULL
       THEN Terminate(t, "assert_key")
       ELSE /\ pc' = [pc EXCEPT ![t] = "add_lock"]
            /\ key' = [key EXCEPT ![t] = k]
            /\ value' = [value EXCEPT ![t] = v]
            /\ hash_table_entry' =
                 [hash_table_entry EXCEPT
                    ![t] = IF variant = "B" THEN get_hash_table_entry(k) ELSE 0]
            /\ UNCHANGED <<variant, lifetime, twin, proc, buf, table, guards, list_entry,
                           first, pend>>
            /\ Quiet

\* pthread_mutex_lock, blocking while the mutex is held; v1 finds the bucket
\* now; then get_list_entry starts at the chain's first node
AddLock(t) ==
    /\ Running
    /\ pc[t] = "add_lock"
    /\ GuardFree(t)
    /\ IF variant = "A" /\ key[t] = NULL
       THEN Terminate(t, "assert_key")
       ELSE LET i == IF variant = "A" THEN get_hash_table_entry(key[t])
                     ELSE hash_table_entry[t]
            IN  /\ Acquire(t)
                /\ hash_table_entry' = [hash_table_entry EXCEPT ![t] = i]
                /\ list_entry' = [list_entry EXCEPT ![t] = head[i]]
                /\ pc' = [pc EXCEPT ![t] = "add_scan"]
                /\ UNCHANGED <<variant, lifetime, twin, proc, buf, table, key, value, first,
                               pend>>
                /\ Quiet

\* get_list_entry, one node at a time
AddScan(t) ==
    /\ Running
    /\ pc[t] = "add_scan"
    /\ LET turn == ScanTurn(list_entry[t], key[t])
       IN  IF turn = "segv" THEN Terminate(t, "segv")
           ELSE /\ pc' = [pc EXCEPT ![t] =
                            CASE turn = "found" -> "add_update"
                              [] turn = "absent" -> "add_alloc"
                              [] OTHER -> "add_scan"]
                /\ list_entry' =
                     [list_entry EXCEPT
                        ![t] = IF turn = "next" THEN heap[@].pointers ELSE @]
                /\ UNCHANGED <<variant, lifetime, twin, proc, buf, table, guards, key, value,
                               hash_table_entry, first, pend>>
                /\ Quiet

\* list_entry->value = value
StoreValue(n, v) == [heap EXCEPT ![n].value = v]

AddUpdate(t) ==
    /\ Running
    /\ pc[t] = "add_update"
    /\ heap' = StoreValue(list_entry[t], value[t])
    /\ pc' = [pc EXCEPT ![t] = "add_unlock_update"]
    /\ UNCHANGED <<variant, lifetime, twin, proc, buf, head, nalloc, guards, locals>>
    /\ Quiet

\* calloc(1, sizeof(struct list_entry)): a zeroed node, or NULL.  The result
\* is not checked.  SLIST_INSERT_HEAD's load of the chain's first node is
\* taken here: the lock keeps it from changing.
AddAlloc(t) ==
    /\ Running
    /\ pc[t] = "add_alloc"
    /\ \/ /\ nalloc < MaxNodes
          /\ nalloc' = nalloc + 1
          /\ list_entry' = [list_entry EXCEPT ![t] = nalloc + 1]
       \/ /\ list_entry' = [list_entry EXCEPT ![t] = NULL]
          /\ UNCHANGED nalloc
    /\ first' = [first EXCEPT ![t] = head[hash_table_entry[t]]]
    /\ pend' = [pend EXCEPT ![t] = StoreSet]
    /\ pc' = [pc EXCEPT ![t] = "add_store"]
    /\ UNCHANGED <<variant, lifetime, twin, proc, buf, head, heap, guards, key, value,
                   hash_table_entry>>
    /\ Quiet

\* an insert that forgets to link the old chain behind the new node
StoredHeap_DropsChain(t, s) ==
    LET n == list_entry[t]
    IN  CASE s = "key"   -> [heap EXCEPT ![n].key = key[t]]
          [] s = "value" -> [heap EXCEPT ![n].value = value[t]]
          [] OTHER       -> heap

\* what one of the four stores does to the heap and to the bucket's head
StoredHeap(t, s) ==
    LET n == list_entry[t]
    IN  CASE s = "key"   -> [heap EXCEPT ![n].key = key[t]]
          [] s = "value" -> [heap EXCEPT ![n].value = value[t]]
          [] s = "next"  -> [heap EXCEPT ![n].pointers = first[t]]
          [] OTHER       -> heap

\* an insert that publishes the new node in Variant A only
StoredHead_OnlyVariantA(t, s) ==
    IF s = "first" /\ variant = "A"
    THEN [head EXCEPT ![hash_table_entry[t]] = list_entry[t]]
    ELSE head

StoredHead(t, s) ==
    IF s = "first" THEN [head EXCEPT ![hash_table_entry[t]] = list_entry[t]]
    ELSE head

\* list_entry->key = key; list_entry->value = value; SLIST_INSERT_HEAD:
\* store s reaches memory.  Through a NULL list_entry it is SIGSEGV.
AddStore(t, s) ==
    /\ Running
    /\ pc[t] = "add_store"
    /\ s \in pend[t]
    /\ IF list_entry[t] = NULL
       THEN Terminate(t, "segv")
       ELSE /\ heap' = StoredHeap(t, s)
            /\ head' = StoredHead(t, s)
            /\ pend' = [pend EXCEPT ![t] = @ \ {s}]
            /\ pc' = [pc EXCEPT ![t] =
                        IF pend[t] = {s} THEN "add_unlock" ELSE "add_store"]
            /\ UNCHANGED <<variant, lifetime, twin, proc, buf, nalloc, guards, key, value,
                           hash_table_entry, list_entry, first>>
            /\ Quiet

\* the first pending store in program order
ProgramOrder(t) ==
    NewStores[CHOOSE i \in 1..Len(NewStores) :
                /\ NewStores[i] \in pend[t]
                /\ \A j \in 1..(i - 1) : NewStores[j] \notin pend[t]]

\* pthread_mutex_unlock and the return, after the update (line 96) or after
\* the insert (line 109)
AddUnlock(t) ==
    /\ Running
    /\ pc[t] \in {"add_unlock_update", "add_unlock"}
    /\ Release(t)
    /\ Return(t, Returned(t, "add", 0))
    /\ UNCHANGED <<variant, lifetime, twin, proc, buf, table>>

(* ------------------------ contains and get_value ----------------------- *)

\* readers that wait until no mutex is held
ReadSync_Waits(t) ==
    /\ mutex = NoThread
    /\ \A i \in Buckets : entry_mutex[i] = NoThread
    /\ UNCHANGED guards

\* what contains and get_value do to the mutexes: nothing, they call no
\* pthread function
ReadSync(t) == UNCHANGED guards

\* the call: the bucket, then get_list_entry's load of its first node
ReadCall(t, o, k) ==
    /\ Running
    /\ pc[t] = "idle"
    /\ IF k = NULL
       THEN Terminate(t, "assert_key")
       ELSE /\ pc' = [pc EXCEPT ![t] = o]
            /\ key' = [key EXCEPT ![t] = k]
            /\ hash_table_entry' =
                 [hash_table_entry EXCEPT ![t] = get_hash_table_entry(k)]
            /\ list_entry' =
                 [list_entry EXCEPT ![t] = head[get_hash_table_entry(k)]]
            /\ ReadSync(t)
            /\ UNCHANGED <<variant, lifetime, twin, proc, buf, table, value, first, pend>>
            /\ Quiet

ContainsCall(t, k) == ReadCall(t, "contains_scan", k)

GetCall(t, k) == ReadCall(t, "get_scan", k)

\* hash_table_contains: get_list_entry one node at a time, then
\* return list_entry != NULL
ContainsScan(t) ==
    /\ Running
    /\ pc[t] = "contains_scan"
    /\ LET turn == ScanTurn(list_entry[t], key[t])
       IN  CASE turn = "segv" -> Terminate(t, "segv")
             [] turn = "next" ->
                  /\ list_entry' = [list_entry EXCEPT ![t] = heap[@].pointers]
                  /\ ReadSync(t)
                  /\ UNCHANGED <<variant, lifetime, twin, proc, buf, table, pc, key, value,
                                 hash_table_entry, first, pend>>
                  /\ Quiet
             [] OTHER ->
                  /\ Return(t, Returned(t, "contains",
                                        IF turn = "found" THEN 1 ELSE 0))
                  /\ ReadSync(t)
                  /\ UNCHANGED <<variant, lifetime, twin, proc, buf, table>>

\* a get_value that returns 0 for a missing key instead of asserting
GetAbsent_ReturnsZero(t) ==
    /\ Return(t, Returned(t, "get", 0))
    /\ UNCHANGED <<variant, lifetime, twin, proc, buf, table, guards>>

\* assert(list_entry != NULL) with list_entry NULL
GetAbsent(t) == Terminate(t, "assert_entry")

\* hash_table_get_value: get_list_entry one node at a time, then
\* assert(list_entry != NULL)
GetScan(t) ==
    /\ Running
    /\ pc[t] = "get_scan"
    /\ LET turn == ScanTurn(list_entry[t], key[t])
       IN  CASE turn = "segv" -> Terminate(t, "segv")
             [] turn = "absent" -> GetAbsent(t)
             [] turn = "next" ->
                  /\ list_entry' = [list_entry EXCEPT ![t] = heap[@].pointers]
                  /\ ReadSync(t)
                  /\ UNCHANGED <<variant, lifetime, twin, proc, buf, table, pc, key, value,
                                 hash_table_entry, first, pend>>
                  /\ Quiet
             [] OTHER ->
                  /\ pc' = [pc EXCEPT ![t] = "get_value"]
                  /\ ReadSync(t)
                  /\ UNCHANGED <<variant, lifetime, twin, proc, buf, table, locals>>
                  /\ Quiet

\* return list_entry->value
GetReturn(t) ==
    /\ Running
    /\ pc[t] = "get_value"
    /\ Return(t, Returned(t, "get", heap[list_entry[t]].value))
    /\ ReadSync(t)
    /\ UNCHANGED <<variant, lifetime, twin, proc, buf, table>>

(* ------------------------------ the caller ----------------------------- *)

\* a buffer some call in progress was given as its key
InUse(b) == \E t \in Threads : pc[t] # "idle" /\ key[t] = b

\* The caller overwrites (or frees and reuses) a key buffer of its own.  It
\* keeps a buffer unchanged for the duration of the call it was passed to,
\* and not longer.
CallerWrite(b, s) ==
    /\ Running
    /\ ~InUse(b)
    /\ s # buf[b]
    /\ buf' = [buf EXCEPT ![b] = s]
    /\ UNCHANGED <<variant, lifetime, twin, proc, table, guards, pc, locals>>
    /\ Quiet

(* --------------------------- specifications ---------------------------- *)

KeyArgs == Bufs \cup {NULL}

Call(t) ==
    \E k \in KeyArgs :
        \/ \E v \in Values : AddCall(t, k, v)
        \/ ContainsCall(t, k)
        \/ GetCall(t, k)

Step(t) ==
    \/ AddLock(t)
    \/ AddScan(t)
    \/ AddUpdate(t)
    \/ AddAlloc(t)
    \/ AddUnlock(t)
    \/ ContainsScan(t)
    \/ GetScan(t)
    \/ GetReturn(t)

Caller == \E b \in Bufs, s \in KeyStrings : CallerWrite(b, s)

\* stores reach memory in any order
Next ==
    \/ \E t \in Threads : Call(t) \/ Step(t)
    \/ \E t \in Threads : \E s \in StoreSet : AddStore(t, s)
    \/ Caller

Spec == Init /\ [][Next]_vars

\* stores reach memory in program order (sequentially consistent memory)
OrderedStore(t) == pend[t] # {} /\ AddStore(t, ProgramOrder(t))

NextSC ==
    \/ \E t \in Threads : Call(t) \/ Step(t)
    \/ \E t \in Threads : OrderedStore(t)
    \/ Caller

SpecSC == Init /\ [][NextSC]_vars

\* callers that keep every key buffer unchanged for the table's lifetime
NextKeep ==
    \/ \E t \in Threads : Call(t) \/ Step(t)
    \/ \E t \in Threads : \E s \in StoreSet : AddStore(t, s)

SpecKeep == Init /\ [][NextKeep]_vars

\* The barrier test: every thread inserts, again and again, the key in a
\* buffer of its own; the keys differ; the harness notes each returned
\* insert.  Nothing else runs.
InitBarrier ==
    /\ Created
    /\ buf \in {f \in [Bufs -> KeyStrings] :
                  \A a, b \in Bufs : a # b => f[a] # f[b]}
    /\ oracle = OracleOn
    /\ twin = TwinOff

NextBarrier ==
    \/ \E t \in Threads \cap Bufs : \E v \in Values : AddCall(t, t, v)
    \/ \E t \in Threads :
          \/ AddLock(t)
          \/ AddScan(t)
          \/ AddUpdate(t)
          \/ AddAlloc(t)
          \/ AddUnlock(t)
    \/ \E t \in Threads : \E s \in StoreSet : AddStore(t, s)

SpecBarrier == InitBarrier /\ [][NextBarrier]_vars

\* Inserts and contains, with a harness that notes every insert that has
\* returned (the key's bytes and the value), the callers rewriting their key
\* buffers as they like.  Only keys matter here: every insert writes 0.
InitNoted ==
    /\ Created
    /\ buf \in [Bufs -> KeyStrings]
    /\ oracle = OracleOn
    /\ twin = TwinOff

NextNoted ==
    \/ \E t \in Threads : \E k \in KeyArgs :
          \/ AddCall(t, k, 0)
          \/ ContainsCall(t, k)
    \/ \E t \in Threads :
          \/ AddLock(t)
          \/ AddScan(t)
          \/ AddUpdate(t)
          \/ AddAlloc(t)
          \/ AddUnlock(t)
          \/ ContainsScan(t)
    \/ \E t \in Threads : \E s \in StoreSet : AddStore(t, s)
    \/ Caller

SpecNoted == InitNoted /\ [][NextNoted]_vars

\* Threads that only insert, any keys.  Scheduling: a thread that can take
\* a step of its add_entry eventually takes one, and a thread waiting in
\* pthread_mutex_lock gets the mutex if it is free again and again.  Calls
\* are under no obligation: each thread may stop calling at any time.
AddStep(t) ==
    \/ AddLock(t)
    \/ AddScan(t)
    \/ AddUpdate(t)
    \/ AddAlloc(t)
    \/ AddUnlock(t)
    \/ \E s \in StoreSet : AddStore(t, s)

NextAdd ==
    \/ \E t \in Threads : \E k \in KeyArgs : \E v \in Values : AddCall(t, k, v)
    \/ \E t \in Threads : AddStep(t)

Fairness == \A t \in Threads : WF_vars(AddStep(t)) /\ SF_vars(AddLock(t))

SpecFair == Init /\ [][NextAdd]_vars /\ Fairness

(* ------------------------------- destroy ------------------------------- *)

DestroyPcs == {"destroy_loop", "destroy_mutex", "destroy_free"}

\* a free() that releases nothing
Free_Leaks(n) == freed

\* free(list_entry)
Free(n) == [freed EXCEPT ![n] = @ + 1]

\* what pthread_mutex_destroy can do with a mutex in state m: it succeeds on
\* an unlocked one, fails (EBUSY) on a locked one, and on a mutex already
\* destroyed its behaviour is undefined: it may report success or failure
pthread_mutex_destroy(m) ==
    IF m = NoThread THEN {"ok"}
    ELSE IF m = Destroyed THEN {"ok", "fail"}
    ELSE {"fail"}

\* hash_table_destroy is entered, i = 0; the handle is not examined
DestroyCall(t) ==
    /\ Running
    /\ pc[t] = "idle"
    /\ pc' = [pc EXCEPT ![t] = "destroy_loop"]
    /\ hash_table_entry' = [hash_table_entry EXCEPT ![t] = 0]
    /\ UNCHANGED <<variant, lifetime, twin, proc, buf, table, guards, key,
                   value, list_entry, first, pend>>
    /\ Quiet

\* while (!SLIST_EMPTY(list_head)): SLIST_FIRST, SLIST_REMOVE_HEAD, free.
\* On a table already freed the loads read freed memory: the process may
\* fault, or go on with what the memory still holds.
DestroyRemove(t) ==
    /\ Running
    /\ pc[t] = "destroy_loop"
    /\ LET i == hash_table_entry[t]
           n == head[i]
       IN  /\ n # NULL
           /\ \/ /\ hash_table = "freed" \/ freed[n] > 0
                 /\ Terminate(t, "segv")
              \/ /\ list_entry' = [list_entry EXCEPT ![t] = n]
                 /\ head' = [head EXCEPT ![i] = heap[n].pointers]
                 /\ freed' = Free(n)
                 /\ UNCHANGED <<variant, twin, proc, buf, heap, nalloc,
                                hash_table, guards, pc, key, value,
                                hash_table_entry, first, pend>>
                 /\ Quiet

\* the chain of bucket i is empty: v2 destroys the bucket's mutex (exit on
\* failure); then ++i, or the loop ends
DestroyNext(t) ==
    /\ Running
    /\ pc[t] = "destroy_loop"
    /\ LET i == hash_table_entry[t]
       IN  /\ head[i] = NULL
           /\ \/ /\ hash_table = "freed"
                 /\ Terminate(t, "segv")
              \/ \E o \in (IF variant = "B"
                           THEN pthread_mutex_destroy(entry_mutex[i])
                           ELSE {"ok"}) :
                   IF o = "fail" THEN Terminate(t, "exit_failure")
                   ELSE /\ entry_mutex' =
                             IF variant = "B"
                             THEN [entry_mutex EXCEPT ![i] = Destroyed]
                             ELSE entry_mutex
                        /\ hash_table_entry' =
                             [hash_table_entry EXCEPT
                                ![t] = IF i + 1 < Capacity THEN i + 1 ELSE 0]
                        /\ list_entry' = [list_entry EXCEPT ![t] = NULL]
                        /\ pc' = [pc EXCEPT ![t] =
                                    IF i + 1 < Capacity THEN "destroy_loop"
                                    ELSE IF variant = "A" THEN "destroy_mutex"
                                    ELSE "destroy_free"]
                        /\ UNCHANGED <<variant, lifetime, twin, proc, buf,
                                       table, mutex, key, value, first, pend>>
                        /\ Quiet

\* v1: pthread_mutex_destroy(&hash_table->mutex), exit on failure
DestroyMutex(t) ==
    /\ Running
    /\ pc[t] = "destroy_mutex"
    /\ \/ /\ hash_table = "freed"
          /\ Terminate(t, "segv")
       \/ \E o \in pthread_mutex_destroy(mutex) :
            IF o = "fail" THEN Terminate(t, "exit_failure")
            ELSE /\ mutex' = Destroyed
                 /\ pc' = [pc EXCEPT ![t] = "destroy_free"]
                 /\ UNCHANGED <<variant, lifetime, twin, proc, buf, table,
                                entry_mutex, locals>>
                 /\ Quiet

\* free(hash_table) and the return.  Freeing it a second time is undefined:
\* the allocator may abort the process, or not notice.
DestroyFree(t) ==
    /\ Running
    /\ pc[t] = "destroy_free"
    /\ \/ /\ hash_table = "freed"
          /\ Terminate(t, "abort")
       \/ /\ hash_table' = "freed"
          /\ Return(t, Returned(t, "destroy", 0))
          /\ UNCHANGED <<variant, twin, proc, buf, table, guards, freed>>

DestroyStep(t) ==
    \/ DestroyRemove(t)
    \/ DestroyNext(t)
    \/ DestroyMutex(t)
    \/ DestroyFree(t)

\* no thread is inside hash_table_destroy
NoDestroy == \A t \in Threads : pc[t] \notin DestroyPcs

\* The table's whole life.  The callers keep to the contract of destroy as
\* far as the table cannot check it: destroy is called when no operation is
\* in progress and nothing is called on a table during or after destroy,
\* except that destroy may be called again.
LiveCall(t) == hash_table = "live" /\ NoDestroy /\ Call(t)

QuietDestroy(t) == (\A u \in Threads : pc[u] = "idle") /\ DestroyCall(t)

NextLife ==
    \/ \E t \in Threads : LiveCall(t)
    \/ \E t \in Threads : Step(t)
    \/ \E t \in Threads : \E s \in StoreSet : AddStore(t, s)
    \/ \E t \in Threads : QuietDestroy(t)
    \/ \E t \in Threads : DestroyStep(t)

SpecLife == Init /\ [][NextLife]_vars

(* ------------------------- two tables in lockstep ---------------------- *)

\* the chain from node n in nodes m, as <<key bytes, value>> pairs
RECURSIVE PairsFrom(_, _)
PairsFrom(m, n) ==
    IF n = NULL THEN <<>>
    ELSE <<<<IF m[n].key = NULL THEN <<0>> ELSE buf[m[n].key], m[n].value>>>>
           \o PairsFrom(m, m[n].pointers)

\* what a table with heads h and nodes m holds, bucket by bucket
Contents(h, m) == [i \in Buckets |-> PairsFrom(m, h[i])]

\* the call in hand has returned, or has ended its process
Finished == ret # NoRet \/ ~Running

\* A harness owns a table of each variant, created alike, and gives every
\* call first to one and then, same arguments, to the other; `twin` keeps
\* the table that is not being called.
InitTwin ==
    /\ Created
    /\ buf \in [Bufs -> KeyStrings]
    /\ oracle = OracleOff
    /\ twin = [TwinOff EXCEPT !.stage = "ready",
                              !.variant = IF variant = "A" THEN "B" ELSE "A"]

\* the harness decides on its next call
TwinPick(t, o, k, v) ==
    /\ Running
    /\ twin.stage = "ready"
    /\ \A u \in Threads : pc[u] = "idle"
    /\ twin' = [twin EXCEPT !.stage = "first", !.call = Called(t, o, k, v)]
    /\ UNCHANGED <<variant, lifetime, proc, buf, table, guards, pc, locals>>
    /\ Quiet

\* and makes it on the table in front
TwinIssue(t) ==
    /\ twin.stage \in {"first", "second"}
    /\ twin.call.thread = t
    /\ ret = NoRet
    /\ CASE twin.call.op = "add" -> AddCall(t, twin.call.key, twin.call.value)
         [] twin.call.op = "contains" -> ContainsCall(t, twin.call.key)
         [] OTHER -> GetCall(t, twin.call.key)

\* calloc treats the second table as it treated the first: the first call
\* ended in SIGSEGV exactly if its calloc returned NULL
SameCalloc(t) ==
    (twin.stage = "second" /\ pc[t] = "add_alloc")
        => ((list_entry'[t] = NULL) <=> (twin.proc = "segv"))

TwinStep(t) == Step(t) /\ SameCalloc(t)

\* the first table's call is over: the tables change places, the outcome is
\* kept, and the other table's process stands ready for the same call
TwinSwap ==
    /\ twin.stage = "first"
    /\ Finished
    /\ twin' = [stage |-> "second", call |-> twin.call, variant |-> variant,
                proc |-> proc, head |-> head, heap |-> heap,
                nalloc |-> nalloc, mutex |-> mutex,
                entry_mutex |-> entry_mutex, ret |-> ret]
    /\ variant' = twin.variant
    /\ proc' = twin.proc
    /\ head' = twin.head
    /\ heap' = twin.heap
    /\ nalloc' = twin.nalloc
    /\ mutex' = twin.mutex
    /\ entry_mutex' = twin.entry_mutex
    /\ pc' = [t \in Threads |-> "idle"]
    /\ UNCHANGED <<lifetime, buf, locals>>
    /\ Quiet

\* both calls have returned: on to the next call
TwinDone ==
    /\ twin.stage = "second"
    /\ ret # NoRet
    /\ twin.proc = "running"
    /\ twin' = [twin EXCEPT !.stage = "ready", !.call = NoCall, !.ret = NoRet]
    /\ UNCHANGED <<variant, lifetime, proc, buf, table, guards, pc, locals>>
    /\ Quiet

\* between calls the caller may rewrite its key buffers
TwinCaller == twin.stage = "ready" /\ Caller

NextTwin ==
    \/ \E t \in Threads : \E k \in KeyArgs :
          \/ \E v \in Values : TwinPick(t, "add", k, v)
          \/ TwinPick(t, "contains", k, 0)
          \/ TwinPick(t, "get", k, 0)
    \/ \E t \in Threads : TwinIssue(t)
    \/ \E t \in Threads : TwinStep(t)
    \/ \E t \in Threads : \E s \in StoreSet : AddStore(t, s)
    \/ TwinSwap
    \/ TwinDone
    \/ TwinCaller

SpecTwin == InitTwin /\ [][NextTwin]_vars

(* ----------------------- vocabulary of the claims ---------------------- *)

AddPcs == {"add_lock", "add_scan", "add_update", "add_alloc", "add_store",
           "add_unlock_update", "add_unlock"}

ReadPcs == {"contains_scan", "get_scan", "get_value"}

\* thread t is inside add_entry / between its lock and its unlock
InAdd(t) == pc[t] \in AddPcs

InSection(t) == pc[t] \in AddPcs \ {"add_lock"}

\* this step is thread t's add_entry returning
AddReturns(t) == pc[t] \in {"add_unlock_update", "add_unlock"} /\ pc'[t] = "idle"

\* this step is a step of thread t
Moves(t) ==
    /\ pc'[t] # "gone"
    /\ <<pc[t], list_entry[t], pend[t]>>' # <<pc[t], list_entry[t], pend[t]>>

\* some thread other than t is inside add_entry with key bytes s
OtherInsertOf(t, s) ==
    \E u \in Threads \ {t} : InAdd(u) /\ key[u] # NULL /\ buf[key[u]] = s

Range(q) == {q[i] : i \in 1..Len(q)}

\* the nodes linked into some chain
Linked == UNION {Range(Chain(i)) : i \in Buckets}

\* the entries of the table whose key reads s
Entries(s) == {n \in Linked : heap[n].key # NULL /\ KeyOf(n) = s}

Once(s) == Cardinality(Entries(s)) = 1

\* no node calloc has handed out, linked or not, has a key that reads s
NoEntry(s) == \A n \in 1..nalloc : heap[n].key = NULL \/ KeyOf(n) # s

Quiescent == Running /\ \A t \in Threads : pc[t] = "idle"

(* -------------------------------- C1 ---------------------------------- *)

\* C1: when insert_or_update(t, k, v) returns and no other insert of k is
\* running, contains(t, k) is true and get(t, k) is v.
C1_LookupAfterInsert ==
    [][\A t \in Threads, s \in KeyStrings, v \in Values :
          (AddReturns(t) /\ s = buf[key[t]] /\ v = value[t]
             /\ ~OtherInsertOf(t, s))
          => (Contains(s) /\ GetValue(s) = v)']_vars

(* -------------------------------- C2 ---------------------------------- *)

\* C2: an insert of a key that is already present overwrites its value in
\* place: no node is allocated for a key the table holds, the update path
\* leaves every chain as it was, and when it returns the key has exactly
\* one entry, holding the new value.
C2_SecondInsertOverwrites ==
    [][\A t \in Threads, s \in KeyStrings, v \in Values :
          /\ (pc[t] = "add_alloc" /\ s = buf[key[t]]) => ~Contains(s)
          /\ (pc[t] \in {"add_update", "add_unlock_update"} /\ Moves(t))
               => \A i \in Buckets : Chain(i)' = Chain(i)
          /\ (AddReturns(t) /\ pc[t] = "add_unlock_update"
                /\ s = buf[key[t]] /\ v = value[t])
               => (Once(s) /\ GetValue(s) = v)']_vars

(* -------------------------------- C3 ---------------------------------- *)

\* C3: threads insert pairwise disjoint keys concurrently; once every call
\* has returned, each key the harness noted is present exactly once with
\* the value its thread wrote last, and no other key is present.
C3_BarrierAllPresent ==
    Quiescent =>
        \A s \in KeyStrings :
            IF oracle.val[s] = NoValue
            THEN Entries(s) = {}
            ELSE Once(s) /\ Contains(s) /\ GetValue(s) = oracle.val[s]

\* every thread has inserted and returned, and two of the keys share a chain
C3_Witness ==
    /\ Quiescent
    /\ oracle.on
    /\ Cardinality({s \in KeyStrings : oracle.val[s] # NoValue}) = NumThreads
    /\ \E i \in Buckets : Len(Chain(i)) >= 2

(* -------------------------------- C4 ---------------------------------- *)

\* C4: in every reachable state no chain holds two entries whose keys are
\* equal.
C4_NoDuplicateKeys ==
    \A i \in Buckets :
        \A a, b \in Range(Chain(i)) :
            (a # b /\ heap[a].key # NULL /\ heap[b].key # NULL)
                => KeyOf(a) # KeyOf(b)

(* -------------------------------- C5 ---------------------------------- *)

\* C5: Variant A: at most one thread is between the lock and the unlock of
\* add_entry, whatever buckets the keys hash to; it owns the table's mutex,
\* and every other thread inside add_entry stands at the lock and cannot
\* take a step.
C5_TableWideExclusion ==
    (variant = "A" /\ Running) =>
        \A t \in Threads :
            /\ InSection(t) <=> mutex = t
            /\ InSection(t) =>
                 \A u \in Threads \ {t} :
                     InAdd(u) => pc[u] = "add_lock" /\ ~ENABLED AddLock(u)

\* one thread links a new node while another waits for a different bucket
C5_Witness ==
    /\ variant = "A"
    /\ \E t, u \in Threads :
         /\ pc[t] = "add_store"
         /\ pc[u] = "add_lock"
         /\ key[u] # NULL
         /\ hash_table_entry[t] # get_hash_table_entry(key[u])

(* -------------------------------- C6 ---------------------------------- *)

\* C6: Variant B: for every bucket at most one thread is between the lock
\* and the unlock of add_entry for a key hashing to it; that thread owns the
\* bucket's mutex, and a thread waiting for the same bucket cannot step.
C6_PerBucketExclusion ==
    variant = "B" =>
        \A t \in Threads :
            InSection(t) =>
                /\ hash_table_entry[t] = BucketIndex(buf[key[t]])
                /\ entry_mutex[hash_table_entry[t]] = t
                /\ \A u \in Threads \ {t} :
                     (InAdd(u) /\ hash_table_entry[u] = hash_table_entry[t])
                         => pc[u] = "add_lock" /\ ~ENABLED AddLock(u)

\* two inserts of different keys meet at one bucket: one inside, one waiting
C6_Witness ==
    /\ variant = "B"
    /\ \E t, u \in Threads :
         /\ pc[t] = "add_store"
         /\ pc[u] = "add_lock"
         /\ hash_table_entry[u] = hash_table_entry[t]
         /\ buf[key[u]] # buf[key[t]]

(* -------------------------------- C7 ---------------------------------- *)

\* C7: Variant B: a thread at the lock of a bucket that no thread is inside
\* can take it, whichever other buckets' mutexes are held, and a thread
\* inside can always take its next step; Variant A never has two threads
\* inside.
C7_OtherBucketsNotBlocked ==
    /\ variant = "B" =>
         \A u \in Threads :
             /\ (/\ pc[u] = "add_lock"
                 /\ \A t \in Threads \ {u} :
                      InSection(t) => hash_table_entry[t] # hash_table_entry[u])
                  => ENABLED AddLock(u)
             /\ (Running /\ InSection(u))
                  => ENABLED (Step(u) \/ \E s \in StoreSet : AddStore(u, s))
    /\ variant = "A" => Cardinality({t \in Threads : InSection(t)}) <= 1

\* two threads inside at once, for different buckets, one about to return
C7_Witness ==
    /\ variant = "B"
    /\ \E t, u \in Threads :
         /\ InSection(t)
         /\ pc[u] = "add_unlock"
         /\ hash_table_entry[u] # hash_table_entry[t]

(* -------------------------------- C8 ---------------------------------- *)

\* C8: contains and get_value can always be called and can always take their
\* next step, whoever holds a mutex, and no step of theirs changes a mutex.
C8_ReadersTakeNoGuard ==
    /\ [](Running =>
            \A t \in Threads :
                /\ pc[t] = "idle" =>
                     \A k \in Bufs : /\ ENABLED ContainsCall(t, k)
                                     /\ ENABLED GetCall(t, k)
                /\ pc[t] \in ReadPcs =>
                     ENABLED (ContainsScan(t) \/ GetScan(t) \/ GetReturn(t)))
    /\ [][\A t \in Threads :
            ((pc[t] \in ReadPcs \/ pc'[t] \in ReadPcs) /\ Moves(t))
                => guards' = guards]_vars

\* get_value has found its entry while another thread holds that bucket's mutex
C8_Witness ==
    /\ variant = "B"
    /\ \E t, u \in Threads :
         /\ pc[t] = "get_value"
         /\ InSection(u)
         /\ entry_mutex[hash_table_entry[t]] = u

(* -------------------------------- C9 ---------------------------------- *)

\* C9: the table owns a copy of each key, so a caller overwriting a key
\* buffer changes no lookup: every key is present after the write exactly if
\* it was before, with the same value.
C9_OwnedKeyCopy ==
    [][(buf' # buf) =>
          \A s \in KeyStrings :
              /\ (Contains(s))' = Contains(s)
              /\ Contains(s) => (GetValue(s))' = GetValue(s)]_vars

(* -------------------------------- C10 --------------------------------- *)

\* C10: a step of get_value for a key that has no entry returns no value
\* and changes no chain, node or mutex; when its scan has reached the end of
\* the chain the step is the failed assertion that ends the process.
C10_GetAbsentAsserts ==
    [][\A t \in Threads, s \in KeyStrings :
          (pc[t] = "get_scan" /\ Moves(t) /\ s = buf[key[t]] /\ NoEntry(s))
          => /\ ret' = NoRet
             /\ pc'[t] # "get_value"
             /\ UNCHANGED <<table, guards>>
             /\ list_entry[t] = NULL => proc' = "assert_entry"]_vars

\* the assertion of get_value has failed on a table that holds an entry
C10_Witness == proc = "assert_entry" /\ Linked # {}

(* -------------------------------- C11 --------------------------------- *)

\* C11: when calloc fails in add_entry the failure is detected right there
\* and the process ends reporting it; no store ever goes through the failed
\* result, and the insert path never returns without its node linked.
C11_AllocFailureDetected ==
    [][\A t \in Threads :
          /\ (pc[t] = "add_alloc" /\ Moves(t) /\ list_entry'[t] = NULL)
                => proc' = "exit_failure"
          /\ (pc[t] = "add_store" /\ Moves(t)) => list_entry[t] # NULL
          /\ (AddReturns(t) /\ pc[t] = "add_unlock")
                => list_entry[t] \in Linked]_vars

(* -------------------------------- C12 --------------------------------- *)

\* C12: destroy called on a table already destroyed is detected at the call
\* and ends the process reporting it; no thread is ever inside destroy's
\* body, reading or freeing, on a table that was freed.
C12_DoubleDestroyDetected ==
    /\ [][\A t \in Threads :
             (hash_table = "freed" /\ pc[t] = "idle" /\ pc'[t] # "idle")
                => proc' = "exit_failure"]_vars
    /\ [](\A t \in Threads : pc[t] \in DestroyPcs => hash_table = "live")

(* -------------------------------- C13 --------------------------------- *)

\* C13: destroy of a live table with no other operation in progress: every
\* free is of a node add_entry allocated and was not freed before, every
\* mutex destroyed was initialised and unlocked, and at the step that frees
\* the table every chain is empty, every allocated node has been freed
\* exactly once and the variant's mutexes (A: the table's, B: one per bucket)
\* are all destroyed.
C13_DestroyFreesAll ==
    [][/\ \A n \in Nodes :
            freed'[n] # freed[n]
               => (n <= nalloc /\ freed[n] = 0 /\ freed'[n] = 1)
       /\ hash_table = "live" =>
            /\ (mutex' # mutex /\ mutex' = Destroyed) => mutex = NoThread
            /\ \A i \in Buckets :
                 (entry_mutex'[i] # entry_mutex[i]
                    /\ entry_mutex'[i] = Destroyed)
                    => entry_mutex[i] = NoThread
       /\ (hash_table = "live" /\ hash_table' = "freed") =>
            /\ \A i \in Buckets : head'[i] = NULL
            /\ \A n \in Nodes : freed'[n] = IF n <= nalloc THEN 1 ELSE 0
            /\ IF variant = "A" THEN mutex' = Destroyed
               ELSE \A i \in Buckets : entry_mutex'[i] = Destroyed
            /\ ret'.op = "destroy"]_vars

\* destroy has returned after freeing two nodes that shared a chain
C13_Witness ==
    /\ Running
    /\ hash_table = "freed"
    /\ ret.op = "destroy"
    /\ \A n \in Nodes : freed[n] = 1
    /\ \E n \in Nodes : heap[n].pointers # NULL

(* -------------------------------- C14 --------------------------------- *)

\* C14: the same calls, one after another, on a Variant A and a Variant B
\* table: whenever the second table's call is over, it ended as the first
\* table's did (the same return, or the same end of the process), and the
\* two tables hold the same (key, value) chain in every bucket.
C14_VariantsEquivalent ==
    (twin.stage = "second" /\ Finished) =>
        /\ variant # twin.variant
        /\ proc = twin.proc
        /\ ret = twin.ret
        /\ Contents(head, heap) = Contents(twin.head, twin.heap)

\* both tables answered a get with 1 while holding two keys in one chain
C14_Witness ==
    /\ twin.stage = "second"
    /\ ret.op = "get"
    /\ ret.val = 1
    /\ twin.ret = ret
    /\ \E i \in Buckets : Len(Chain(i)) = 2

(* -------------------------------- C15 --------------------------------- *)

\* no add_entry for key bytes s has returned or is in progress
NeverStarted(s) ==
    /\ oracle.val[s] = NoValue
    /\ \A t \in Threads : ~(InAdd(t) /\ key[t] # NULL /\ buf[key[t]] = s)

\* C15: in every state of the running process a key for which no add_entry
\* has started is not in the table, and no contains returns true for such a
\* key, whatever other keys were inserted.
C15_NeverInsertedAbsent ==
    /\ [](Running => \A s \in KeyStrings : NeverStarted(s) => ~Contains(s))
    /\ [][\A t \in Threads :
             (pc[t] = "contains_scan" /\ ret' = Returned(t, "contains", 1))
                => ~NeverStarted(buf[key[t]])]_vars

(* -------------------------------- C16 --------------------------------- *)

\* C16: while the process runs a mutex is locked only by a thread that is
\* between the lock and the unlock of add_entry (for that bucket, in
\* Variant B), so with no thread inside add_entry every mutex is unlocked;
\* a returning add_entry, on the update path as on the insert path, leaves
\* no mutex locked by its thread; and a mutex is unlocked only by the
\* returning thread that held it.
C16_GuardReleasedOnExit ==
    /\ [](Running =>
            /\ mutex # NoThread => (variant = "A" /\ InSection(mutex))
            /\ \A i \in Buckets :
                 entry_mutex[i] # NoThread
                    => /\ variant = "B"
                       /\ InSection(entry_mutex[i])
                       /\ hash_table_entry[entry_mutex[i]] = i
            /\ (\A t \in Threads : ~InAdd(t))
                 => (mutex = NoThread
                       /\ \A i \in Buckets : entry_mutex[i] = NoThread))
    /\ [][/\ \A t \in Threads :
               AddReturns(t)
                  => (mutex' # t /\ \A i \in Buckets : entry_mutex'[i] # t)
          /\ (mutex # NoThread /\ mutex' = NoThread) => AddReturns(mutex)
          /\ \A i \in Buckets :
               (entry_mutex[i] # NoThread /\ entry_mutex'[i] = NoThread)
                  => AddReturns(entry_mutex[i])]_vars

\* the early return is about to unlock a bucket another thread waits for
C16_Witness ==
    /\ variant = "B"
    /\ \E t, u \in Threads :
         /\ pc[t] = "add_unlock_update"
         /\ entry_mutex[hash_table_entry[t]] = t
         /\ pc[u] = "add_lock"
         /\ hash_table_entry[u] = hash_table_entry[t]

(* -------------------------------- C17 --------------------------------- *)

\* how many mutexes thread t owns
Held(t) ==
    (IF mutex = t THEN 1 ELSE 0)
        + Cardinality({i \in Buckets : entry_mutex[i] = t})

\* C17: a thread waiting for a mutex owns none and no thread owns two; as
\* long as some add_entry is in progress some thread inside add_entry can
\* take a step (no deadlock); and under fair scheduling every add_entry
\* that has started comes to its end.
C17_NoDeadlockAllReturn ==
    /\ [](Running =>
            /\ \A t \in Threads :
                 /\ pc[t] = "add_lock" => Held(t) = 0
                 /\ Held(t) <= 1
            /\ (\E t \in Threads : InAdd(t))
                 => \E t \in Threads : InAdd(t) /\ ENABLED AddStep(t))
    /\ \A t \in Threads : InAdd(t) ~> (pc[t] = "idle" \/ ~Running)

\* Variant A: one thread waits for the table's mutex while the other, for a
\* different bucket, is about to overwrite a value
C17_Witness ==
    /\ variant = "A"
    /\ \E t, u \in Threads :
         /\ pc[t] = "add_update"
         /\ pc[u] = "add_lock"
         /\ mutex = t
         /\ key[u] # NULL
         /\ get_hash_table_entry(key[u]) # hash_table_entry[t]

(* -------------------------------- C18 --------------------------------- *)

\* C18: every entry is linked in the chain of the bucket its key hashes to
\* (bernstein_hash(key) % HASH_TABLE_CAPACITY) and in no other; add_entry,
\* contains and get_value address that bucket for their key; and an entry's
\* key, once stored, is never stored again, so its bucket never changes.
C18_KeyInItsBucket ==
    /\ [](\A i \in Buckets : \A n \in Range(Chain(i)) :
             /\ heap[n].key # NULL => BucketIndex(KeyOf(n)) = i
             /\ \A j \in Buckets \ {i} : n \notin Range(Chain(j)))
    /\ [](\A t \in Threads :
             (pc[t] \in (AddPcs \cup ReadPcs)
                /\ (variant = "A" => pc[t] # "add_lock"))
                => hash_table_entry[t] = BucketIndex(buf[key[t]]))
    /\ [][\A n \in Nodes :
             heap[n].key # NULL => heap'[n].key = heap[n].key]_vars

(* -------------------------------- C19 --------------------------------- *)

\* the scan of reader t, continued from its cursor, comes to an entry for
\* its key
Finds(t) == ScanFrom(list_entry[t], buf[key[t]]) # NULL

\* C19: with stores in program order, a key is in the table when its
\* add_entry returns and stays in it through every later step; a contains
\* or get_value that starts while its key is in the table keeps an entry
\* for the key ahead of its cursor whatever other threads insert, and ends
\* by returning true, or the value (unless another thread's failed assert
\* or fault ends the process first).
C19_PresenceMonotonic ==
    [][/\ \A t \in Threads, s \in KeyStrings :
            (AddReturns(t) /\ s = buf[key[t]]) => Contains(s)'
       /\ \A s \in KeyStrings : Contains(s) => Contains(s)'
       /\ \A t \in Threads :
            /\ (pc[t] = "idle" /\ pc'[t] \in {"contains_scan", "get_scan"}
                  /\ Contains(buf[key'[t]]))
                 => Finds(t)'
            /\ (pc[t] \in {"contains_scan", "get_scan"} /\ Finds(t))
                 => \/ pc'[t] = pc[t] /\ Finds(t)'
                    \/ ret' = Returned(t, "contains", 1)
                    \/ pc'[t] = "get_value"
                    \/ pc'[t] = "gone"
            /\ pc[t] = "get_value"
                 => \/ pc'[t] = "get_value"
                    \/ ret'.thread = t /\ ret'.op = "get"
                    \/ pc'[t] = "gone"]_vars

(* -------------------------------- C20 --------------------------------- *)

\* C20: a step of add_entry for key k changes no chain but that of k's
\* bucket and no node but its own: the update path changes nothing but the
\* value of an entry whose key is k, the insert path writes only the node it
\* allocated and, its stores done, has that node at the head of the chain
\* followed by the chain as it was, entry for entry.  A step of contains or
\* get_value changes no chain, node or mutex.
C20_FrameConditions ==
    [][\A t \in Threads :
          /\ (InAdd(t) /\ Moves(t)) =>
               /\ \A i \in Buckets :
                    Chain(i)' # Chain(i) => i = BucketIndex(buf[key[t]])
               /\ \A n \in Nodes :
                    heap'[n] # heap[n] =>
                       /\ n = list_entry[t]
                       /\ pc[t] \in {"add_update", "add_store"}
                       /\ pc[t] = "add_update" =>
                            /\ KeysEqual(n, key[t])
                            /\ heap'[n].key = heap[n].key
                            /\ heap'[n].pointers = heap[n].pointers
                            /\ \A i \in Buckets : Chain(i)' = Chain(i)
                       /\ pc[t] = "add_store" => n \notin Linked \/ pend[t] # StoreSet
          /\ (pc[t] = "add_alloc" /\ pc'[t] = "add_store")
               => ChainFrom(first[t])' = Chain(hash_table_entry[t])
          /\ (pc[t] = "add_store" /\ pc'[t] \in {"add_store", "add_unlock"})
               => /\ first'[t] = first[t]
                  /\ ChainFrom(first[t])' = ChainFrom(first[t])
          /\ (pc[t] = "add_store" /\ pc'[t] = "add_unlock")
               => Chain(hash_table_entry[t])'
                     = <<list_entry[t]>> \o ChainFrom(first[t])
          /\ ((pc[t] \in ReadPcs \/ pc'[t] \in ReadPcs) /\ Moves(t))
               => UNCHANGED <<table, guards>>]_vars

=============================================================================
